---- MODULE Spec2Model ----
(***************************************************************************)
(* lsp-word: the dispatch loop `serve`, the document cache `docs`, the     *)
(* tokenizer `load_all_words` and `create_completion_response` of          *)
(* src/main.rs, as a state machine.                                        *)
(*                                                                         *)
(* A text is a sequence of characters, each character a one-element        *)
(* string.  A message is a record {kind, method, id, params}.  The calls   *)
(* serve makes into the lsp_server crate (Connection::handle_shutdown,     *)
(* the crossbeam receiver and sender of the Connection) are modelled by    *)
(* what those calls do to the channel ends serve holds.                    *)
(***************************************************************************)
EXTENDS Naturals, Sequences, FiniteSets

(***************************************************************************)
(* Bounds of the model.                                                    *)
(***************************************************************************)
\* messages the client sends in one run
MaxMsgs == 3
\* messages waiting in connection.receiver at one time
MaxInbox == 2
\* length of the document text in the tokenizer specification
MaxLen == 5

(***************************************************************************)
(* Characters: the classes of the pattern [A-Za-z_][A-Za-z0-9_]+           *)
(***************************************************************************)
UpperCase == <<"A","B","C","D","E","F","G","H","I","J","K","L","M",
               "N","O","P","Q","R","S","T","U","V","W","X","Y","Z">>
LowerCase == <<"a","b","c","d","e","f","g","h","i","j","k","l","m",
               "n","o","p","q","r","s","t","u","v","w","x","y","z">>
Digits == {"0","1","2","3","4","5","6","7","8","9"}

Range(s) == {s[i] : i \in DOMAIN s}

\* [A-Za-z_]
HeadChars == Range(UpperCase) \cup Range(LowerCase) \cup {"_"}
IsHeadChar(c) == c \in HeadChars
\* [A-Za-z0-9_]
WordChars == HeadChars \cup Digits
IsWordChar(c) == c \in WordChars

(***************************************************************************)
(* Regex::find_iter for [A-Za-z_][A-Za-z0-9_]+ : leftmost match, greedy    *)
(* repetition, the next search starts where the last match ended.          *)
(***************************************************************************)
\* a repetition that is not greedy, `+?`: it stops after one word character
GreedyEnd_Lazy(content, e) ==
    IF e + 1 <= Len(content) /\ IsWordChar(content[e + 1]) THEN e + 1 ELSE e

\* the last index of the run of word characters that holds position e: the greedy
\* repetition takes every word character that follows
RECURSIVE GreedyEnd(_, _)
GreedyEnd(content, e) ==
    IF e + 1 <= Len(content) /\ IsWordChar(content[e + 1])
    THEN GreedyEnd(content, e + 1)
    ELSE e

\* a pattern whose repetition is `*`: one head character is a match
MatchesAt_Star(content, pos) ==
    /\ pos <= Len(content)
    /\ IsHeadChar(content[pos])

\* the pattern matches at position pos: one head character, then `+`, at least one
\* word character
MatchesAt(content, pos) ==
    /\ pos <= Len(content)
    /\ IsHeadChar(content[pos])
    /\ GreedyEnd(content, pos) >= pos + 1

\* the matches from position pos on, as [start, end] index pairs, in text order
RECURSIVE find_iter(_, _)
find_iter(content, pos) ==
    IF pos > Len(content) THEN <<>>
    ELSE IF MatchesAt(content, pos)
         THEN LET e == GreedyEnd(content, pos)
              IN  <<[start |-> pos, end |-> e]>> \o find_iter(content, e + 1)
         ELSE find_iter(content, pos + 1)

\* a match cut one character short
as_str_Short(content, m) == SubSeq(content, m.start, m.end - 1)

\* m.as_str().to_owned()
as_str(content, m) == SubSeq(content, m.start, m.end)

\* .map(|m| m.as_str().to_owned()): the matched strings, in text order
MatchedStrings(content) ==
    LET ms == find_iter(content, 1)
    IN  [i \in 1..Len(ms) |-> as_str(content, ms[i])]

(***************************************************************************)
(* HashSet<String>: the elements it holds, as a sequence without repeats   *)
(* (the order of the sequence is the set's own and means nothing).         *)
(***************************************************************************)
\* a Vec's push: the element is added whether or not it is there
HashSet_insert_Push(set, s) == Append(set, s)

\* HashSet::insert: an element that is there already is not added again
HashSet_insert(set, s) ==
    IF \E i \in DOMAIN set : set[i] = s THEN set ELSE Append(set, s)

\* .collect::<HashSet<String>>(): every string of the iterator is inserted
RECURSIVE CollectHashSet(_)
CollectHashSet(strs) ==
    IF strs = <<>> THEN <<>>
    ELSE HashSet_insert(CollectHashSet(SubSeq(strs, 1, Len(strs) - 1)), strs[Len(strs)])

\* load_all_words on the content of a document that is in docs
load_all_words(content) == CollectHashSet(MatchedStrings(content))

\* words.iter(): the elements in an order that is not specified, every order is possible
IterOrders(set) ==
    LET n == Len(set)
        Perms == {q \in [1..n -> 1..n] : \A i, j \in 1..n : i # j => q[i] # q[j]}
    IN  {[i \in 1..n |-> set[q[i]]] : q \in Perms}

\* .map(|word| CompletionItem {label: word.to_owned(), ..}).collect()
CollectItems(order) == [i \in 1..Len(order) |-> [label |-> order[i]]]

(***************************************************************************)
(* Messages                                                                *)
(***************************************************************************)
Uris == {"file:///u1", "file:///u2"}
Positions == {0, 1}

T1 == <<"a","b">>
T2 == <<"c","d"," ","c","d">>
DocTexts == {T1, T2}
ChangeLists == {<<>>, <<T1>>, <<T2, T1>>}

Malformed == [valid |-> FALSE]
NoParams == [valid |-> TRUE]

M_Completion == "textDocument/completion"
M_Shutdown == "shutdown"
M_Exit == "exit"
M_DidOpen == "textDocument/didOpen"
M_DidChange == "textDocument/didChange"
M_DidClose == "textDocument/didClose"
M_Hover == "textDocument/hover"

Req(id, method, params) ==
    [kind |-> "Request", method |-> method, id |-> id, params |-> params]
Notif(method, params) ==
    [kind |-> "Notification", method |-> method, id |-> 0, params |-> params]

CompletionParams == [valid : {TRUE}, uri : Uris, position : Positions]
DidOpenParams == [valid : {TRUE}, uri : Uris, text : DocTexts]
DidChangeParams == [valid : {TRUE}, uri : Uris, content_changes : ChangeLists]
DidCloseParams == [valid : {TRUE}, uri : Uris]

\* the requests a client can send with request id `id`
Requests(id) ==
    {Req(id, M_Completion, p) : p \in CompletionParams \cup {Malformed}}
    \cup {Req(id, M_Shutdown, NoParams), Req(id, M_Hover, NoParams)}

Notifications ==
    {Notif(M_Exit, NoParams)}
    \cup {Notif(M_DidOpen, p) : p \in DidOpenParams \cup {Malformed}}
    \cup {Notif(M_DidChange, p) : p \in DidChangeParams \cup {Malformed}}
    \cup {Notif(M_DidClose, p) : p \in DidCloseParams}

\* a Response of the client (the server sends no request of its own)
ClientResponse == [kind |-> "Response", method |-> "", id |-> 0, params |-> NoParams]

VARIABLES
    docs,      \* serve's `docs`: a function from the Uris that have an entry to their text
    pc,        \* where serve is: Serving, ShuttingDown, Exited, Failed, Panicked
    inbox,     \* connection.receiver: messages sent by the client, not yet received
    closed,    \* the sending end of connection.receiver has been dropped
    outbox,    \* the messages sent on connection.sender, in order
    sinkOpen,  \* the receiving end of connection.sender still exists
    log        \* the messages taken from connection.receiver, in order

vars == <<docs, pc, inbox, closed, outbox, sinkOpen, log>>

(***************************************************************************)
(* Outbound messages                                                       *)
(***************************************************************************)
None == [some |-> FALSE]
Some(v) == [some |-> TRUE, value |-> v]
JsonNull == [json |-> "null"]
JsonArray(items) == [json |-> "array", items |-> items]

Response(id, result, error) ==
    [kind |-> "Response", id |-> id, result |-> result, error |-> error]

(***************************************************************************)
(* The document cache: HashMap<Uri, String>                                *)
(***************************************************************************)
\* docs.get(&uri) is Some
contains_key(d, uri) == uri \in DOMAIN d

\* docs.entry(uri).or_insert(text): an entry that exists is kept as it is
insert_KeepFirst(d, uri, text) ==
    IF uri \in DOMAIN d THEN d
    ELSE [u \in (DOMAIN d) \cup {uri} |-> IF u = uri THEN text ELSE d[u]]

\* docs.insert(uri, text): the entry of uri is created or replaced
insert(d, uri, text) ==
    [u \in (DOMAIN d) \cup {uri} |-> IF u = uri THEN text ELSE d[u]]

\* candidates cut down by the cursor position: as many as the character offset
create_completion_response_ByPosition(req, d, order) ==
    IF ~req.params.valid THEN [outcome |-> "Err"]
    ELSE IF ~contains_key(d, req.params.uri) THEN [outcome |-> "Panic"]
    ELSE [outcome |-> "Ok",
          msg |-> Response(req.id,
                           Some(JsonArray(CollectItems(
                               SubSeq(order, 1, req.params.position)))),
                           None)]

\* a response built with a request id of its own, not with req.id
create_completion_response_OwnId(req, d, order) ==
    IF ~req.params.valid THEN [outcome |-> "Err"]
    ELSE IF ~contains_key(d, req.params.uri) THEN [outcome |-> "Panic"]
    ELSE [outcome |-> "Ok",
          msg |-> Response(0, Some(JsonArray(CollectItems(order))), None)]

(***************************************************************************)
(* create_completion_response(req, &docs): what the call ends with.        *)
(*   Err    serde_json::from_value fails on req.params (the `?` of line 47)*)
(*   Panic  load_all_words: docs.get(&uri).expect("Document not found")   *)
(*   Ok     the Response message; `order` is the order in which the        *)
(*          HashSet of words is iterated                                   *)
(***************************************************************************)
create_completion_response(req, d, order) ==
    IF ~req.params.valid THEN [outcome |-> "Err"]
    ELSE IF ~contains_key(d, req.params.uri) THEN [outcome |-> "Panic"]
    ELSE [outcome |-> "Ok",
          msg |-> Response(req.id, Some(JsonArray(CollectItems(order))), None)]

\* the texts of the documents in S, one after the other
RECURSIVE ConcatTexts(_, _)
ConcatTexts(d, S) ==
    IF S = {} THEN <<>>
    ELSE LET u == CHOOSE x \in S : TRUE
         IN  d[u] \o <<" ">> \o ConcatTexts(d, S \ {u})

\* the words of every document of the store, not only of the one req names
WordOrders_AllDocs(req, d) ==
    IF req.params.valid /\ contains_key(d, req.params.uri)
    THEN IterOrders(load_all_words(ConcatTexts(d, DOMAIN d)))
    ELSE {<<>>}

\* the iteration orders of the words of the document req names (one dummy order when
\* the call ends before load_all_words returns)
WordOrders(req, d) ==
    IF req.params.valid /\ contains_key(d, req.params.uri)
    THEN IterOrders(load_all_words(d[req.params.uri]))
    ELSE {<<>>}

(***************************************************************************)
(* The dispatch loop                                                       *)
(***************************************************************************)
Active == pc \in {"Serving", "ShuttingDown"}

\* the id of the next request the client sends: request ids are not reused
NextId == 1 + Cardinality({i \in DOMAIN (log \o inbox) : (log \o inbox)[i].kind = "Request"})

IsExit(m) == m.kind = "Notification" /\ m.method = M_Exit

\* `for msg in &connection.receiver`: the next message is taken from the channel
Receive ==
    /\ inbox # <<>>
    /\ inbox' = Tail(inbox)
    /\ log' = Append(log, Head(inbox))

\* match msg { Message::Request(req) => match req.method.as_str() { .. } }
AtRequest(method) ==
    /\ pc = "Serving"
    /\ inbox # <<>>
    /\ Head(inbox).kind = "Request"
    /\ Head(inbox).method = method

AtNotification(method) ==
    /\ pc = "Serving"
    /\ inbox # <<>>
    /\ Head(inbox).kind = "Notification"
    /\ Head(inbox).method = method

\* `let _ = connection.sender.send(..)`: a failed send is ignored and serving goes on
HandleCompletion_IgnoreSendError ==
    /\ AtRequest(M_Completion)
    /\ Receive
    /\ \E order \in WordOrders(Head(inbox), docs) :
         LET r == create_completion_response(Head(inbox), docs, order)
         IN  CASE r.outcome = "Err" -> pc' = "Failed" /\ UNCHANGED outbox
               [] r.outcome = "Panic" -> pc' = "Panicked" /\ UNCHANGED outbox
               [] r.outcome = "Ok" /\ sinkOpen ->
                      pc' = "Serving" /\ outbox' = Append(outbox, r.msg)
               [] r.outcome = "Ok" /\ ~sinkOpen ->
                      pc' = "Serving" /\ UNCHANGED outbox
    /\ UNCHANGED <<docs, closed, sinkOpen>>

\* a completion response put in front of the responses sent before it
HandleCompletion_Prepend ==
    /\ AtRequest(M_Completion)
    /\ Receive
    /\ \E order \in WordOrders(Head(inbox), docs) :
         LET r == create_completion_response(Head(inbox), docs, order)
         IN  CASE r.outcome = "Err" -> pc' = "Failed" /\ UNCHANGED outbox
               [] r.outcome = "Panic" -> pc' = "Panicked" /\ UNCHANGED outbox
               [] r.outcome = "Ok" /\ sinkOpen ->
                      pc' = "Serving" /\ outbox' = <<r.msg>> \o outbox
               [] r.outcome = "Ok" /\ ~sinkOpen ->
                      pc' = "Failed" /\ UNCHANGED outbox
    /\ UNCHANGED <<docs, closed, sinkOpen>>

\* request::Completion::METHOD => connection.sender.send(create_completion_response(req, &docs)?)?
HandleCompletion ==
    /\ AtRequest(M_Completion)
    /\ Receive
    /\ \E order \in WordOrders(Head(inbox), docs) :
         LET r == create_completion_response(Head(inbox), docs, order)
         IN  CASE r.outcome = "Err" -> pc' = "Failed" /\ UNCHANGED outbox
               [] r.outcome = "Panic" -> pc' = "Panicked" /\ UNCHANGED outbox
               [] r.outcome = "Ok" /\ sinkOpen ->
                      pc' = "Serving" /\ outbox' = Append(outbox, r.msg)
               [] r.outcome = "Ok" /\ ~sinkOpen ->
                      pc' = "Failed" /\ UNCHANGED outbox
    /\ UNCHANGED <<docs, closed, sinkOpen>>

\* request::Shutdown::METHOD => connection.handle_shutdown(&req)?  -- first half:
\* `let _ = self.sender.send(Response::new_ok(id, ()))`, then wait for the next message
HandleShutdown ==
    /\ AtRequest(M_Shutdown)
    /\ Receive
    /\ outbox' = IF sinkOpen
                 THEN Append(outbox, Response(Head(inbox).id, Some(JsonNull), None))
                 ELSE outbox
    /\ pc' = "ShuttingDown"
    /\ UNCHANGED <<docs, closed, sinkOpen>>

\* a handle_shutdown that returns Ok whatever message it received
ShutdownRecv_AnyMessage ==
    /\ pc = "ShuttingDown"
    /\ Receive
    /\ pc' = "Serving"
    /\ UNCHANGED <<docs, closed, outbox, sinkOpen>>

\* handle_shutdown, second half: receiver.recv_timeout(30 s) gives a message;
\* the exit notification lets handle_shutdown return Ok, anything else is an Err
ShutdownRecv ==
    /\ pc = "ShuttingDown"
    /\ Receive
    /\ pc' = IF IsExit(Head(inbox)) THEN "Serving" ELSE "Failed"
    /\ UNCHANGED <<docs, closed, outbox, sinkOpen>>

\* handle_shutdown, second half: recv_timeout gives Timeout or Disconnected
ShutdownRecvError ==
    /\ pc = "ShuttingDown"
    /\ inbox = <<>>
    /\ pc' = "Failed"
    /\ UNCHANGED <<docs, inbox, closed, outbox, sinkOpen, log>>

\* an unknown request answered with an error response (MethodNotFound)
HandleOtherRequest_Reply ==
    /\ pc = "Serving"
    /\ inbox # <<>>
    /\ Head(inbox).kind = "Request"
    /\ Head(inbox).method \notin {M_Shutdown, M_Completion}
    /\ Receive
    /\ outbox' = Append(outbox, Response(Head(inbox).id, None, Some("MethodNotFound")))
    /\ UNCHANGED <<docs, pc, closed, sinkOpen>>

\* Message::Request(req), `_ => ()`
HandleOtherRequest ==
    /\ pc = "Serving"
    /\ inbox # <<>>
    /\ Head(inbox).kind = "Request"
    /\ Head(inbox).method \notin {M_Shutdown, M_Completion}
    /\ Receive
    /\ UNCHANGED <<docs, pc, closed, outbox, sinkOpen>>

\* an exit notification that clears the store
HandleExit_Clear ==
    /\ AtNotification(M_Exit)
    /\ Receive
    /\ docs' = [u \in {} |-> <<>>]
    /\ UNCHANGED <<pc, closed, outbox, sinkOpen>>

\* notification::Exit::METHOD => ()
HandleExit ==
    /\ AtNotification(M_Exit)
    /\ Receive
    /\ UNCHANGED <<docs, pc, closed, outbox, sinkOpen>>

\* the text of the last content change is stored, not that of the first
HandleDidChange_Last ==
    /\ AtNotification(M_DidChange)
    /\ Receive
    /\ LET params == Head(inbox).params
       IN  IF ~params.valid THEN pc' = "Failed" /\ UNCHANGED docs
           ELSE IF params.content_changes = <<>> THEN pc' = "Panicked" /\ UNCHANGED docs
           ELSE /\ docs' = insert(docs, params.uri,
                                  params.content_changes[Len(params.content_changes)])
                /\ pc' = "Serving"
    /\ UNCHANGED <<closed, outbox, sinkOpen>>

\* notification::DidChangeTextDocument::METHOD => { from_value(..)?; docs.insert(uri,
\* content_changes[0].text) }: indexing an empty Vec panics
HandleDidChange ==
    /\ AtNotification(M_DidChange)
    /\ Receive
    /\ LET params == Head(inbox).params
       IN  IF ~params.valid THEN pc' = "Failed" /\ UNCHANGED docs
           ELSE IF params.content_changes = <<>> THEN pc' = "Panicked" /\ UNCHANGED docs
           ELSE /\ docs' = insert(docs, params.uri, params.content_changes[1])
                /\ pc' = "Serving"
    /\ UNCHANGED <<closed, outbox, sinkOpen>>

\* an open notification whose parameters do not parse is skipped and serving goes on
HandleDidOpen_Skip ==
    /\ AtNotification(M_DidOpen)
    /\ Receive
    /\ LET params == Head(inbox).params
       IN  IF ~params.valid THEN pc' = "Serving" /\ UNCHANGED docs
           ELSE /\ docs' = insert(docs, params.uri, params.text)
                /\ pc' = "Serving"
    /\ UNCHANGED <<closed, outbox, sinkOpen>>

\* notification::DidOpenTextDocument::METHOD => { from_value(..)?; docs.insert(uri, text) }
HandleDidOpen ==
    /\ AtNotification(M_DidOpen)
    /\ Receive
    /\ LET params == Head(inbox).params
       IN  IF ~params.valid THEN pc' = "Failed" /\ UNCHANGED docs
           ELSE /\ docs' = insert(docs, params.uri, params.text)
                /\ pc' = "Serving"
    /\ UNCHANGED <<closed, outbox, sinkOpen>>

\* a close notification that removes the entry of its document
HandleOtherNotification_Remove ==
    /\ pc = "Serving"
    /\ inbox # <<>>
    /\ Head(inbox).kind = "Notification"
    /\ Head(inbox).method \notin {M_Exit, M_DidChange, M_DidOpen}
    /\ Receive
    /\ docs' = IF Head(inbox).method = M_DidClose
               THEN [u \in (DOMAIN docs) \ {Head(inbox).params.uri} |-> docs[u]]
               ELSE docs
    /\ UNCHANGED <<pc, closed, outbox, sinkOpen>>

\* Message::Notification(not), `_ => ()`
HandleOtherNotification ==
    /\ pc = "Serving"
    /\ inbox # <<>>
    /\ Head(inbox).kind = "Notification"
    /\ Head(inbox).method \notin {M_Exit, M_DidChange, M_DidOpen}
    /\ Receive
    /\ UNCHANGED <<docs, pc, closed, outbox, sinkOpen>>

\* match msg { .., _ => () }: a Message::Response
HandleResponse ==
    /\ pc = "Serving"
    /\ inbox # <<>>
    /\ Head(inbox).kind = "Response"
    /\ Receive
    /\ UNCHANGED <<docs, pc, closed, outbox, sinkOpen>>

\* the receiver's iterator ends when the channel is empty and disconnected: Ok(())
LoopEnd ==
    /\ pc = "Serving"
    /\ inbox = <<>>
    /\ closed
    /\ pc' = "Exited"
    /\ UNCHANGED <<docs, inbox, closed, outbox, sinkOpen, log>>

(***************************************************************************)
(* The other ends of the connection                                        *)
(***************************************************************************)
\* the client sends a message; serve holds the receiver until it returns
ClientSend ==
    /\ Active
    /\ ~closed
    /\ Len(log) + Len(inbox) < MaxMsgs
    /\ Len(inbox) < MaxInbox
    /\ \E m \in Requests(NextId) \cup Notifications \cup {ClientResponse} :
         inbox' = Append(inbox, m)
    /\ UNCHANGED <<docs, pc, closed, outbox, sinkOpen, log>>

\* the sending end of connection.receiver is dropped
ClientClose ==
    /\ Active
    /\ ~closed
    /\ closed' = TRUE
    /\ UNCHANGED <<docs, pc, inbox, outbox, sinkOpen, log>>

\* the receiving end of connection.sender is dropped: every later send is an Err
SinkClose ==
    /\ Active
    /\ sinkOpen
    /\ sinkOpen' = FALSE
    /\ UNCHANGED <<docs, pc, inbox, closed, outbox, log>>

Init ==
    /\ docs = [u \in {} |-> <<>>]
    /\ pc = "Serving"
    /\ inbox = <<>>
    /\ closed = FALSE
    /\ outbox = <<>>
    /\ sinkOpen = TRUE
    /\ log = <<>>

Next ==
    \/ HandleCompletion
    \/ HandleShutdown
    \/ ShutdownRecv
    \/ ShutdownRecvError
    \/ HandleOtherRequest
    \/ HandleExit
    \/ HandleDidChange
    \/ HandleDidOpen
    \/ HandleOtherNotification
    \/ HandleResponse
    \/ LoopEnd
    \/ ClientSend
    \/ ClientClose
    \/ SinkClose

Spec == Init /\ [][Next]_vars

(***************************************************************************)
(* The tokenizer on every text up to MaxLen: the client opens a document   *)
(* with the text and asks for its completion.                              *)
(***************************************************************************)
TokAlphabet == {"a", "A", "_", "1", " ", "é"}
Texts == UNION {[1..n -> TokAlphabet] : n \in 0..MaxLen}
TokUri == "file:///u1"

TokInit ==
    /\ docs = [u \in {} |-> <<>>]
    /\ pc = "Serving"
    /\ \E content \in Texts :
         inbox = << Notif(M_DidOpen, [valid |-> TRUE, uri |-> TokUri, text |-> content]),
                    Req(1, M_Completion, [valid |-> TRUE, uri |-> TokUri, position |-> 0]) >>
    /\ closed = FALSE
    /\ outbox = <<>>
    /\ sinkOpen = TRUE
    /\ log = <<>>

TokNext ==
    \/ HandleDidOpen
    \/ HandleCompletion

TokSpec == TokInit /\ [][TokNext]_vars

(***************************************************************************)
(* What the claims speak of                                                *)
(***************************************************************************)
IsRequest(m, method) == m.kind = "Request" /\ m.method = method
IsNotification(m, method) == m.kind = "Notification" /\ m.method = method

\* a completion request whose parameters parse
IsCompletionFor(m, uri) ==
    IsRequest(m, M_Completion) /\ m.params.valid /\ m.params.uri = uri

\* an open or change notification that names document uri
IsWriteFor(m, uri) ==
    /\ m.kind = "Notification"
    /\ m.method \in {M_DidOpen, M_DidChange}
    /\ m.params.valid
    /\ m.params.uri = uri

\* the text an open or change notification carries for its document
TextCarried(m) ==
    IF m.method = M_DidOpen THEN m.params.text ELSE m.params.content_changes[1]

\* a completion, open or change message whose parameters do not parse
IsMalformed(m) ==
    /\ \/ IsRequest(m, M_Completion)
       \/ IsNotification(m, M_DidOpen)
       \/ IsNotification(m, M_DidChange)
    /\ ~m.params.valid

\* a message whose method the dispatcher does not know, or a Response
IsUnrecognised(m) ==
    \/ m.kind = "Response"
    \/ m.kind = "Request" /\ m.method \notin {M_Completion, M_Shutdown}
    \/ m.kind = "Notification" /\ m.method \notin {M_Exit, M_DidOpen, M_DidChange}

\* log[i] was taken by the dispatch loop itself, not by the wait for the exit
\* notification that follows a shutdown request
RECURSIVE Dispatched(_)
Dispatched(i) ==
    \/ i = 1
    \/ ~(IsRequest(log[i - 1], M_Shutdown) /\ Dispatched(i - 1))

\* the handling of log[i] ended without an error or a panic
HandledOk(i) ==
    /\ Dispatched(i)
    /\ i < Len(log) \/ pc \in {"Serving", "ShuttingDown", "Exited"}

\* the places of the responses in outbox that carry request id `id`
ResponsesTo(id) == {k \in DOMAIN outbox : outbox[k].id = id}

\* the labels of a completion response
Labels(resp) == {resp.result.value.items[j].label : j \in DOMAIN resp.result.value.items}

\* a successful response with an empty candidate list
IsEmptyList(resp) ==
    /\ resp.error = None
    /\ resp.result.some
    /\ resp.result.value.json = "array"
    /\ resp.result.value.items = <<>>

\* no open or change notification for uri is among the first n messages received
NeverSeen(uri, n) == \A j \in 1..n : ~IsWriteFor(log[j], uri)

\* the place of the last open or change notification for uri among the first n
\* messages received, 0 if there is none
RECURSIVE LastWrite(_, _)
LastWrite(uri, n) ==
    IF n = 0 THEN 0
    ELSE IF IsWriteFor(log[n], uri) THEN n
    ELSE LastWrite(uri, n - 1)

(***************************************************************************)
(* C1: a completion request for a document that no open or change          *)
(* notification has named is answered with a successful response holding   *)
(* an empty candidate list, and the dispatcher goes on serving (the sink    *)
(* being open).                                                            *)
(***************************************************************************)
C1_UnknownDocumentEmptyList ==
    \A i \in DOMAIN log :
        (/\ Dispatched(i)
         /\ sinkOpen
         /\ \E uri \in Uris : IsCompletionFor(log[i], uri) /\ NeverSeen(uri, i - 1))
        => /\ pc \notin {"Panicked", "Failed"}
           /\ \E k \in ResponsesTo(log[i].id) : IsEmptyList(outbox[k])

(***************************************************************************)
(* C2: last write wins.  The candidates of every completion response are   *)
(* exactly the words of the text carried by the last open or change        *)
(* notification for the document that was received before the request.     *)
(***************************************************************************)
C2_LastWriteWins ==
    \A i \in DOMAIN log : \A uri \in Uris :
        IsCompletionFor(log[i], uri) =>
            \A k \in ResponsesTo(log[i].id) :
                LET w == LastWrite(uri, i - 1)
                IN  /\ w > 0
                    /\ Labels(outbox[k]) = Range(load_all_words(TextCarried(log[w])))

\* a completion was answered after the text of its document had been replaced by
\* a text with other words
C2_Witness ==
    \E i \in DOMAIN log : \E uri \in Uris :
        /\ IsCompletionFor(log[i], uri)
        /\ ResponsesTo(log[i].id) # {}
        /\ \E a, b \in 1..(i - 1) :
            /\ a < b
            /\ IsWriteFor(log[a], uri)
            /\ IsWriteFor(log[b], uri)
            /\ b = LastWrite(uri, i - 1)
            /\ Range(load_all_words(TextCarried(log[a])))
                 \ Range(load_all_words(TextCarried(log[b]))) # {}

(***************************************************************************)
(* The reference tokens of a text: the maximal runs of one scan from the   *)
(* left.  A run starts at a head character that no earlier run holds, it   *)
(* ends before the first character that is no word character, and it is    *)
(* kept when it has two characters or more.                                *)
(***************************************************************************)
\* position s is held by a run that started before it
InsideRun(text, s) ==
    \E k \in 1..(s - 1) :
        IsHeadChar(text[k]) /\ \A j \in k..s : IsWordChar(text[j])

RunStart(text, s) == IsHeadChar(text[s]) /\ ~InsideRun(text, s)

RunSpans(text) ==
    {sp \in {s \in DOMAIN text : RunStart(text, s)} \X (DOMAIN text) :
        /\ sp[1] <= sp[2]
        /\ \A j \in sp[1]..sp[2] : IsWordChar(text[j])
        /\ sp[2] = Len(text) \/ ~IsWordChar(text[sp[2] + 1])}

RefTokens(text) ==
    {SubSeq(text, sp[1], sp[2]) : sp \in {r \in RunSpans(text) : r[2] - r[1] + 1 >= 2}}

\* the completion responses in outbox
CompletionResponses ==
    {k \in DOMAIN outbox : outbox[k].result.some /\ outbox[k].result.value.json = "array"}

\* the tokens the program has produced for the text of the tokenizer specification:
\* those of the stored text and the labels sent
TokensOut ==
    UNION {Range(load_all_words(docs[u])) : u \in DOMAIN docs}
    \cup UNION {Labels(outbox[k]) : k \in CompletionResponses}

(***************************************************************************)
(* C3: every token load_all_words returns has two characters or more,      *)
(* begins with an ASCII letter or an underscore and holds only ASCII       *)
(* letters, ASCII digits and underscores.                                  *)
(***************************************************************************)
AsciiLetters == Range(UpperCase) \cup Range(LowerCase)

C3_TokenShape ==
    \A w \in TokensOut :
        /\ Len(w) >= 2
        /\ w[1] \in AsciiLetters \cup {"_"}
        /\ \A j \in DOMAIN w : w[j] \in AsciiLetters \cup Digits \cup {"_"}

\* a completion was answered for a text that holds a token and also a letter or
\* underscore that stands alone
C3_Witness ==
    \E k \in CompletionResponses : \E u \in DOMAIN docs :
        /\ Labels(outbox[k]) # {}
        /\ \E s \in DOMAIN docs[u] :
              /\ IsHeadChar(docs[u][s])
              /\ s = 1 \/ ~IsWordChar(docs[u][s - 1])
              /\ s = Len(docs[u]) \/ ~IsWordChar(docs[u][s + 1])

(***************************************************************************)
(* C4: the tokens of a text are the reference tokens, the maximal runs of  *)
(* length two or more; no match is followed by a word character; a text    *)
(* without a letter or underscore gives no token.                          *)
(***************************************************************************)
C4_MaximalRuns ==
    /\ \A u \in DOMAIN docs :
          /\ Range(load_all_words(docs[u])) = RefTokens(docs[u])
          /\ \A i \in DOMAIN find_iter(docs[u], 1) :
                LET m == find_iter(docs[u], 1)[i]
                IN  m.end = Len(docs[u]) \/ ~IsWordChar(docs[u][m.end + 1])
          /\ (\A j \in DOMAIN docs[u] : ~IsHeadChar(docs[u][j]))
                => load_all_words(docs[u]) = <<>>
    /\ \A k \in CompletionResponses :
          Labels(outbox[k]) = RefTokens(docs[TokUri])

\* the text `11 a1` was answered with the one candidate `a1`
C4_Witness ==
    \E k \in CompletionResponses :
        /\ docs[TokUri] = <<"1", "1", " ", "a", "1">>
        /\ Labels(outbox[k]) = {<<"a", "1">>}

(***************************************************************************)
(* C5: the labels of one completion response are pairwise distinct, and    *)
(* two words of the document that differ only in the case of their letters *)
(* are two candidates.                                                     *)
(***************************************************************************)
ToLower(c) ==
    IF \E i \in DOMAIN UpperCase : UpperCase[i] = c
    THEN LowerCase[CHOOSE i \in DOMAIN UpperCase : UpperCase[i] = c]
    ELSE c

FoldCase(w) == [i \in DOMAIN w |-> ToLower(w[i])]

C5_DistinctCaseSensitive ==
    \A k \in CompletionResponses :
        LET items == outbox[k].result.value.items
        IN  /\ \A i, j \in DOMAIN items : i # j => items[i].label # items[j].label
            /\ \A u \in DOMAIN docs : \A s, t \in RefTokens(docs[u]) :
                  (s # t /\ FoldCase(s) = FoldCase(t)) =>
                      \E i, j \in DOMAIN items :
                          i # j /\ items[i].label = s /\ items[j].label = t

\* the text `Aa aa` was answered with two candidates
C5_Witness ==
    \E k \in CompletionResponses :
        /\ docs[TokUri] = <<"A", "a", " ", "a", "a">>
        /\ Len(outbox[k].result.value.items) = 2

(***************************************************************************)
(* C6: every completion request that is handled without an error has       *)
(* exactly one response in outbox; the response carries the id of the      *)
(* request, a result and no error; and every response sent carries the id  *)
(* of a request that was received.                                         *)
(***************************************************************************)
C6_OneResponsePerRequest ==
    /\ \A i \in DOMAIN log :
          (IsRequest(log[i], M_Completion) /\ HandledOk(i)) =>
              /\ Cardinality(ResponsesTo(log[i].id)) = 1
              /\ \A k \in ResponsesTo(log[i].id) :
                    /\ outbox[k].result.some
                    /\ outbox[k].result.value.json = "array"
                    /\ outbox[k].error = None
    /\ \A k \in DOMAIN outbox :
          \E i \in DOMAIN log : log[i].kind = "Request" /\ log[i].id = outbox[k].id

\* two completion requests were handled and each has its response
C6_Witness ==
    \E i, j \in DOMAIN log :
        /\ i < j
        /\ IsRequest(log[i], M_Completion) /\ HandledOk(i)
        /\ IsRequest(log[j], M_Completion) /\ HandledOk(j)
        /\ log[i].id # log[j].id
        /\ Len(outbox) = 2

(***************************************************************************)
(* C7: once an exit notification has been received, no message that        *)
(* arrives after it changes the store or causes a response.                *)
(***************************************************************************)
ExitReceived == \E i \in DOMAIN log : IsExit(log[i])

C7_ExitTerminates ==
    [][ExitReceived => (docs' = docs /\ outbox' = outbox)]_vars

(***************************************************************************)
(* C8: a message of an unknown method, or a Response, that the dispatch    *)
(* loop takes while Serving causes no outbound message and no error,       *)
(* changes nothing of the store and leaves the dispatcher Serving.         *)
(***************************************************************************)
C8_UnrecognisedIgnored ==
    [][(/\ pc = "Serving"
        /\ inbox # <<>>
        /\ IsUnrecognised(Head(inbox))
        /\ log' = Append(log, Head(inbox)))
       => (/\ pc' = "Serving"
           /\ outbox' = outbox
           /\ docs' = docs
           /\ sinkOpen' = sinkOpen
           /\ inbox' = Tail(inbox))]_vars

\* an unknown message was taken by the loop and the completion request after it
\* was answered
C8_Witness ==
    \E i \in DOMAIN log :
        /\ i < Len(log)
        /\ IsUnrecognised(log[i])
        /\ Dispatched(i)
        /\ IsRequest(log[i + 1], M_Completion)
        /\ ResponsesTo(log[i + 1].id) # {}
        /\ pc = "Serving"

(***************************************************************************)
(* C9: a completion, open or change message whose parameters do not parse  *)
(* ends the dispatch loop with an error: it changes no store entry, causes *)
(* no response, and nothing is received after it.                          *)
(***************************************************************************)
C9_MalformedIsFatal ==
    /\ [][(/\ Active
           /\ inbox # <<>>
           /\ IsMalformed(Head(inbox))
           /\ log' = Append(log, Head(inbox)))
          => (pc' = "Failed" /\ docs' = docs /\ outbox' = outbox)]_vars
    /\ [][pc = "Failed" => (pc' = "Failed" /\ log' = log /\ docs' = docs /\ outbox' = outbox)]_vars

\* the loop has ended with an error at a malformed message; the store has an entry
\* and a message that arrived later is still in the channel
C9_Witness ==
    /\ pc = "Failed"
    /\ log # <<>>
    /\ IsMalformed(log[Len(log)])
    /\ Dispatched(Len(log))
    /\ DOMAIN docs # {}
    /\ inbox # <<>>

(***************************************************************************)
(* C10: a document that has an entry in the store has one in every later   *)
(* state.                                                                  *)
(***************************************************************************)
C10_NoEntryLost ==
    [][\A u \in DOMAIN docs : u \in DOMAIN docs']_vars

\* a document was opened and then closed, and it still has its entry
C10_Witness ==
    \E i, j \in DOMAIN log : \E u \in Uris :
        /\ i < j
        /\ IsWriteFor(log[i], u)
        /\ IsNotification(log[j], M_DidClose) /\ log[j].params.uri = u
        /\ Dispatched(j)
        /\ u \in DOMAIN docs
        /\ pc = "Serving"

(***************************************************************************)
(* C11: the store changes only in the step in which the dispatch loop      *)
(* takes a document-open or document-change notification; the handling of  *)
(* a completion request, a shutdown request, an exit notification or an    *)
(* unknown message leaves every entry as it is.                            *)
(***************************************************************************)
C11_StoreFrame ==
    [][docs' # docs =>
          /\ pc = "Serving"
          /\ inbox # <<>>
          /\ log' = Append(log, Head(inbox))
          /\ \/ IsNotification(Head(inbox), M_DidOpen)
             \/ IsNotification(Head(inbox), M_DidChange)]_vars

\* a document was opened, then a completion request for it was answered and an
\* exit notification or unknown message was taken, and the entry is as written
C11_Witness ==
    \E u \in Uris :
        /\ Len(log) = 3
        /\ IsNotification(log[1], M_DidOpen) /\ IsWriteFor(log[1], u)
        /\ IsCompletionFor(log[2], u)
        /\ ResponsesTo(log[2].id) # {}
        /\ IsExit(log[3]) \/ IsUnrecognised(log[3])
        /\ u \in DOMAIN docs
        /\ docs[u] = log[1].params.text

(***************************************************************************)
(* C12: tokenization is idempotent on its output.  The tokens of a text,   *)
(* joined with single spaces (in whatever order the set gives them), have  *)
(* the same token set as the text.                                         *)
(***************************************************************************)
\* the strings of a sequence joined with single spaces
RECURSIVE JoinSpace(_)
JoinSpace(strs) ==
    IF strs = <<>> THEN <<>>
    ELSE IF Len(strs) = 1 THEN strs[1]
    ELSE strs[1] \o <<" ">> \o JoinSpace(Tail(strs))

C12_Idempotent ==
    /\ \A u \in DOMAIN docs :
          \A order \in IterOrders(load_all_words(docs[u])) :
              Range(load_all_words(JoinSpace(order))) = Range(load_all_words(docs[u]))
    /\ \A k \in CompletionResponses :
          LET labels == [j \in DOMAIN outbox[k].result.value.items |->
                            outbox[k].result.value.items[j].label]
          IN  Range(load_all_words(JoinSpace(labels))) = Labels(outbox[k])

\* the text `aA _1` was answered with its two tokens as candidates
C12_Witness ==
    \E k \in CompletionResponses :
        /\ docs[TokUri] = <<"a", "A", " ", "_", "1">>
        /\ Labels(outbox[k]) = {<<"a", "A">>, <<"_", "1">>}

(***************************************************************************)
(* C13: messages are handled one at a time in the order of their arrival.  *)
(* Each step takes at most one message, the oldest in the channel; the     *)
(* responses in outbox are in the order in which their requests were       *)
(* received; and the candidates of a completion response are the words of  *)
(* the text the last open or change notification received before the       *)
(* request carried, whatever waits in the channel behind the request.      *)
(***************************************************************************)
\* the place in log of the request with id `id`
ReqIndex(id) == CHOOSE i \in DOMAIN log : log[i].kind = "Request" /\ log[i].id = id

ResponsesInRequestOrder ==
    \A k1, k2 \in DOMAIN outbox :
        k1 < k2 => ReqIndex(outbox[k1].id) < ReqIndex(outbox[k2].id)

C13_ArrivalOrder ==
    [][/\ \/ log' = log
          \/ /\ inbox # <<>>
             /\ log' = Append(log, Head(inbox))
             /\ inbox' = Tail(inbox)
       /\ \/ inbox' = inbox
          \/ inbox # <<>> /\ inbox' = Tail(inbox) /\ log' # log
          \/ /\ Len(inbox') = Len(inbox) + 1
             /\ SubSeq(inbox', 1, Len(inbox)) = inbox
             /\ log' = log
       /\ ResponsesInRequestOrder'
       /\ (outbox' # outbox /\ inbox # <<>> /\ IsRequest(Head(inbox), M_Completion)) =>
             LET uri == Head(inbox).params.uri
                 w == LastWrite(uri, Len(log))
             IN  /\ w > 0
                 /\ outbox' = Append(outbox, outbox'[Len(outbox')])
                 /\ outbox'[Len(outbox')].id = Head(inbox).id
                 /\ Labels(outbox'[Len(outbox')])
                      = Range(load_all_words(TextCarried(log[w])))]_vars

\* a completion request was answered with the words of the text written before it,
\* and a notification received after it has written a text with other words
C13_Witness ==
    \E u \in Uris :
        /\ Len(log) = 3
        /\ IsWriteFor(log[1], u)
        /\ IsCompletionFor(log[2], u)
        /\ IsWriteFor(log[3], u)
        /\ pc = "Serving"
        /\ \E k \in ResponsesTo(log[2].id) :
              /\ Labels(outbox[k]) = Range(load_all_words(TextCarried(log[1])))
              /\ Labels(outbox[k]) # Range(load_all_words(docs[u]))

(***************************************************************************)
(* C14: a document-change notification whose parameters parse, the one     *)
(* with an empty list of content changes included, is handled without      *)
(* ending the dispatch loop: afterwards the dispatcher is Serving and the   *)
(* entry of the document holds a text of the notification, or the store is *)
(* unchanged when the notification carries no text.                        *)
(***************************************************************************)
C14_ChangeAlwaysSucceeds ==
    [][(/\ pc = "Serving"
        /\ inbox # <<>>
        /\ IsNotification(Head(inbox), M_DidChange)
        /\ Head(inbox).params.valid
        /\ log' = Append(log, Head(inbox)))
       => LET params == Head(inbox).params
          IN  /\ pc' = "Serving"
              /\ params.content_changes = <<>> => docs' = docs
              /\ params.content_changes # <<>> =>
                    /\ params.uri \in DOMAIN docs'
                    /\ docs'[params.uri] \in Range(params.content_changes)]_vars

(***************************************************************************)
(* C15, as claimed: a well-formed completion request for a document of the *)
(* store that arrives after a shutdown request and before the exit         *)
(* notification is answered as it would be before the shutdown, and the    *)
(* dispatch loop is not ended by it (the sink being open).                 *)
(***************************************************************************)
\* log[i] came after a shutdown request with no exit notification in between
AfterShutdownBeforeExit(i) ==
    \E j \in 1..(i - 1) :
        /\ IsRequest(log[j], M_Shutdown)
        /\ \A n \in (j + 1)..(i - 1) : ~IsExit(log[n])

C15_ServesAfterShutdown ==
    \A i \in DOMAIN log : \A uri \in Uris :
        (/\ IsCompletionFor(log[i], uri)
         /\ LastWrite(uri, i - 1) > 0
         /\ AfterShutdownBeforeExit(i)
         /\ sinkOpen)
        => /\ pc \notin {"Failed", "Panicked"}
           /\ \E k \in ResponsesTo(log[i].id) :
                 Labels(outbox[k])
                   = Range(load_all_words(TextCarried(log[LastWrite(uri, i - 1)])))

(***************************************************************************)
(* C15, amended: a shutdown request is acknowledged with a successful      *)
(* response and the dispatcher then waits for the exit notification.  A    *)
(* completion request that arrives after the shutdown request and before   *)
(* the exit notification is not answered: it ends the dispatch loop with   *)
(* an error.                                                               *)
(***************************************************************************)
C15_ShutdownAwaitsExit ==
    /\ [][(AtRequest(M_Shutdown) /\ log' = Append(log, Head(inbox)))
          => /\ pc' = "ShuttingDown"
             /\ sinkOpen =>
                  outbox' = Append(outbox, Response(Head(inbox).id, Some(JsonNull), None))]_vars
    /\ [][(/\ pc = "ShuttingDown"
           /\ inbox # <<>>
           /\ IsRequest(Head(inbox), M_Completion)
           /\ log' = Append(log, Head(inbox)))
          => (pc' = "Failed" /\ outbox' = outbox /\ docs' = docs)]_vars
    /\ [][(pc = "ShuttingDown" /\ pc' = "Serving")
          => (inbox # <<>> /\ IsExit(Head(inbox)) /\ log' = Append(log, Head(inbox)))]_vars

\* a document was opened, a shutdown request was acknowledged, and the completion
\* request for the document that came next ended the loop with an error, unanswered
C15_Witness ==
    \E u \in Uris :
        /\ Len(log) = 3
        /\ IsWriteFor(log[1], u)
        /\ IsRequest(log[2], M_Shutdown)
        /\ IsCompletionFor(log[3], u)
        /\ ResponsesTo(log[2].id) # {}
        /\ ResponsesTo(log[3].id) = {}
        /\ sinkOpen
        /\ pc = "Failed"

(***************************************************************************)
(* C16: every well-formed completion request that reaches the dispatch     *)
(* loop before any exit notification, shutdown request or fatal error has  *)
(* its response: none is dropped or left unanswered (the sink being open). *)
(* A request the loop has taken is handled in the same step, so a request  *)
(* in log without a response stays unanswered for ever.                    *)
(***************************************************************************)
C16_EveryRequestAnswered ==
    \A i \in DOMAIN log :
        (/\ IsRequest(log[i], M_Completion)
         /\ log[i].params.valid
         /\ \A j \in 1..(i - 1) : ~IsExit(log[j]) /\ ~IsRequest(log[j], M_Shutdown)
         /\ sinkOpen)
        => ResponsesTo(log[i].id) # {}

(***************************************************************************)
(* C17: the candidates do not depend on the cursor position.  Two answered *)
(* completion requests for the same document, with no open or change       *)
(* notification received between them, have the same set of labels,        *)
(* whatever their positions and ids.                                       *)
(***************************************************************************)
SameStoreBetween(i, j) ==
    \A n \in (i + 1)..(j - 1) : \A u \in Uris : ~IsWriteFor(log[n], u)

C17_PositionIndependent ==
    \A i, j \in DOMAIN log : \A uri \in Uris :
        (/\ i < j
         /\ IsCompletionFor(log[i], uri)
         /\ IsCompletionFor(log[j], uri)
         /\ SameStoreBetween(i, j))
        => \A ki \in ResponsesTo(log[i].id) : \A kj \in ResponsesTo(log[j].id) :
               Labels(outbox[ki]) = Labels(outbox[kj])

\* two completion requests for one document at different positions were answered
\* with the same candidates, and there are candidates
C17_Witness ==
    \E i, j \in DOMAIN log : \E uri \in Uris :
        /\ i < j
        /\ IsCompletionFor(log[i], uri)
        /\ IsCompletionFor(log[j], uri)
        /\ log[i].params.position # log[j].params.position
        /\ SameStoreBetween(i, j)
        /\ \E ki \in ResponsesTo(log[i].id) : \E kj \in ResponsesTo(log[j].id) :
              Labels(outbox[ki]) = Labels(outbox[kj]) /\ Labels(outbox[ki]) # {}

(***************************************************************************)
(* C18: documents are isolated.  A step changes the stored text of a       *)
(* document only when it takes an open or change notification for that     *)
(* very document, and the labels of a completion response for a document   *)
(* are words of the stored text of that document.                          *)
(***************************************************************************)
C18_Isolation ==
    [][/\ \A u \in DOMAIN docs :
             (u \notin DOMAIN docs' \/ docs'[u] # docs[u])
             => (inbox # <<>> /\ IsWriteFor(Head(inbox), u))
       /\ (outbox' # outbox /\ inbox # <<>> /\ IsRequest(Head(inbox), M_Completion)) =>
             /\ Head(inbox).params.uri \in DOMAIN docs
             /\ Labels(outbox'[Len(outbox')])
                  \subseteq RefTokens(docs[Head(inbox).params.uri])]_vars

\* two documents with different words are in the store, the second written after
\* the first, and a completion for the first was answered with its own words only
C18_Witness ==
    \E u, v \in Uris :
        /\ u # v
        /\ Len(log) = 3
        /\ IsWriteFor(log[1], u)
        /\ IsWriteFor(log[2], v)
        /\ IsCompletionFor(log[3], u)
        /\ docs[u] = TextCarried(log[1])
        /\ RefTokens(docs[v]) \ RefTokens(docs[u]) # {}
        /\ \E k \in ResponsesTo(log[3].id) : Labels(outbox[k]) = RefTokens(docs[u])

(***************************************************************************)
(* C19: a completion response that cannot be sent is fatal and is not      *)
(* tried again.  The step that handles the request with the sink closed    *)
(* ends the dispatch loop with an error and sends nothing; after that no   *)
(* message is received, nothing is sent and the store does not change.     *)
(***************************************************************************)
C19_SendFailureIsFatal ==
    /\ [][(/\ AtRequest(M_Completion)
           /\ Head(inbox).params.valid
           /\ Head(inbox).params.uri \in DOMAIN docs
           /\ ~sinkOpen
           /\ log' = Append(log, Head(inbox)))
          => (pc' = "Failed" /\ outbox' = outbox /\ docs' = docs)]_vars
    /\ [][pc = "Failed" => (pc' = "Failed" /\ inbox' = inbox /\ log' = log
                             /\ outbox' = outbox /\ docs' = docs)]_vars

\* the loop has ended with an error at a well-formed completion request for a
\* document of the store, the sink being closed; the request has no response and
\* a message that arrived after it is still in the channel
C19_Witness ==
    /\ pc = "Failed"
    /\ ~sinkOpen
    /\ log # <<>>
    /\ Dispatched(Len(log))
    /\ \E u \in DOMAIN docs : IsCompletionFor(log[Len(log)], u)
    /\ ResponsesTo(log[Len(log)].id) = {}
    /\ inbox # <<>>

(***************************************************************************)
(* C20: when a document-change notification carries several content        *)
(* changes, the entry of its document becomes the text of the first of     *)
(* them; the texts of the later ones are not used.                         *)
(***************************************************************************)
C20_FirstChangeWins ==
    [][(/\ AtNotification(M_DidChange)
        /\ Head(inbox).params.valid
        /\ Len(Head(inbox).params.content_changes) >= 2
        /\ log' = Append(log, Head(inbox)))
       => LET params == Head(inbox).params
          IN  /\ pc' = "Serving"
              /\ params.uri \in DOMAIN docs'
              /\ docs'[params.uri] = params.content_changes[1]
              /\ \A u \in DOMAIN docs : u # params.uri => docs'[u] = docs[u]]_vars

\* a change notification with two different texts was handled and the entry holds
\* the first text, not the second
C20_Witness ==
    /\ log # <<>>
    /\ Dispatched(Len(log))
    /\ pc = "Serving"
    /\ IsNotification(log[Len(log)], M_DidChange)
    /\ log[Len(log)].params.valid
    /\ Len(log[Len(log)].params.content_changes) >= 2
    /\ docs[log[Len(log)].params.uri] = log[Len(log)].params.content_changes[1]
    /\ docs[log[Len(log)].params.uri] # log[Len(log)].params.content_changes[2]

====
